---- MODULE Spec2Model ----
(***************************************************************************)
(* SuperArticles: the article lifecycle (upload, renew, daily cleanup      *)
(* sweep) and the security-code login, as state machines over the rows of  *)
(* the hosted relational store.  Every handler is split at its awaits:     *)
(* each database call is one atomic step, and steps of different requests  *)
(* interleave freely, as serverless invocations do.                        *)
(*                                                                         *)
(* Time is counted in days.  A request lasts seconds, so the clock does    *)
(* not advance while a request is in flight.                               *)
(***************************************************************************)
EXTENDS Integers, Sequences, FiniteSets, TLC

VARIABLES
  clock,      \* Date.now(), in days
  articles,   \* table superhero_articles: sequence of rows, id = index
  sweep,      \* cleanup handler invocations in flight
  renew,      \* renew handler invocations in flight
  succ,       \* history: two cleanup runs in succession, nothing in between
  users,      \* table users
  login,      \* login requests
  env,        \* the deployment: process.env and the installed database client
  out,        \* what the last step showed outside: the request and its answer
  refresh,    \* requests for new security codes
  view        \* api/view.js: likes, bookmarks, view records and their requests

vars == <<clock, articles, sweep, renew, succ, users, login, env, out, refresh, view>>

---------------------------------------------------------------------------
\* Bounds of the model
MaxArticles == 2
MaxClock == 60
TickStep == 10
NumSweeps == 2
NumRenews == 1
MaxInFlight == 2
LongTickStep == 40
LongMaxClock == 160
LongMaxArticles == 1
NumUsers == 1
NumLogins == 3
NumRefreshes == 2
NumViewRequests == 3
NumOwners == 2
OwnerArticles == 2
OwnerTickStep == 30
ViewTickStep == 1
ViewMaxClock == 1
CodeTickStep == 7
CodeMaxClock == 35
BatchArticles == 51
NotifyTickStep == 5
RecMaxClock == 200

\* Program constants
RenewalDays == 30
RemovalDays == 20
NotifyDays == 7
OutdatedPenalty == 20
RenewalBonus == 10
MaxQuality == 100
InitialQuality == 100
RecLimit == 50
MaxTags == 10
FewTags == 5
OldAge == 180
MidAge == 90
MaxRecs == 3
NumCodes == 20
RefreshDays == 7
TokenDays == 30

\* SQL NULL in a date column
NULL == -1

Users == 1..NumUsers
SweepIds == 1..NumSweeps
RenewIds == 1..NumRenews
LoginIds == 1..NumLogins
RefreshIds == 1..NumRefreshes
Owners == 1..NumOwners

Min(a, b) == IF a < b THEN a ELSE b
Max(a, b) == IF a > b THEN a ELSE b

ArticleIds == DOMAIN articles

---------------------------------------------------------------------------
\* The deployment, and the requests to the cleanup endpoints

\* A header the request does not carry, a variable the environment does not set
Undefined == "undefined"

\* The deployment as configured: both secrets and SMTP_HOST set, and a
\* database client on which supabase.sql is a template tag
Configured ==
  [CRON_SECRET |-> "cron-secret", ADMIN_TOKEN |-> "admin-token",
   SMTP_HOST |-> TRUE, clientHasSql |-> TRUE]

\* Every deployment: each variable set or not, the client with or without sql
Deployments ==
  [CRON_SECRET : {Undefined, "cron-secret"}, ADMIN_TOKEN : {Undefined, "admin-token"},
   SMTP_HOST : BOOLEAN, clientHasSql : BOOLEAN]

\* The scheduler's call: a POST with the shared secret in x-cron-secret
CronRequest == [method |-> "POST", cron |-> "cron-secret", admin |-> Undefined]

\* req.method and the headers x-cron-secret and admin-token of any request
Requests ==
  [method : {"POST", "GET"}, cron : {Undefined, "cron-secret", "wrong"},
   admin : {Undefined, "admin-token", "wrong"}]

NoOut == [via |-> "", method |-> "", cron |-> Undefined, admin |-> Undefined,
          res |-> 0, failed |-> {}, user |-> 0, articleId |-> 0]

\* res.status(res): the request as it came in and the status it is answered
\* with, 0 while the handler is still running
Answer(via, req, res) ==
  [via |-> via, method |-> req.method, cron |-> req.cron, admin |-> req.admin,
   res |-> res, failed |-> {}, user |-> 0, articleId |-> 0]

---------------------------------------------------------------------------
\* api/upload.js

\* tags: Array.isArray(tags) ? tags.slice(0, 10) : []   (the number of tags kept)
StoredTags(ntags) == Min(ntags, MaxTags)

\* category: category || 'general'
StoredCategory(category) == IF category = "" THEN "general" ELSE category

\* The row the upload handler inserts.  Columns the insert does not name take
\* the column default: created_at is the insertion time, outdated_since and
\* the recommendation columns are NULL.  `notified` is the column default of
\* renewal_notification_sent, which the insert leaves to the table.
NewArticle(user, category, ntags, now, notified) ==
  [ user_id |-> user,
    status |-> "active",
    created_at |-> now,
    last_renewed |-> now,
    next_renewal_date |-> now + RenewalDays,
    removal_date |-> (now + RenewalDays) + RemovalDays,
    removal_reason |-> "",
    outdated_since |-> NULL,
    quality_score |-> InitialQuality,
    renewal_notification_sent |-> notified,
    renewal_recommendations |-> << >>,
    recommendations_generated_at |-> NULL,
    category |-> StoredCategory(category),
    ntags |-> StoredTags(ntags) ]

SuccNone == [phase |-> "none", snap |-> << >>, same |-> TRUE]

upload(user, category, ntags, notified) ==
  /\ articles' = Append(articles, NewArticle(user, category, ntags, clock, notified))
  /\ succ' = SuccNone
  /\ out' = NoOut
  /\ UNCHANGED <<clock, sweep, renew, users, login, env, refresh, view>>

---------------------------------------------------------------------------
\* api/cleanup.js

validateCronRequest(req) == req.cron = env.CRON_SECRET

IdleSweep == [pc |-> "idle", now |-> 0, ids |-> {}, queue |-> << >>]
IdleRenew == [pc |-> "idle", user |-> 0, now |-> 0, pending |-> {}]

SweepInFlight(s) == sweep[s].pc # "idle"
RenewInFlight(r) == renew[r].pc # "idle"
LoginInFlight(l) == login[l].pc = "update"
RefreshInFlight(n) == refresh[n].pc = "update"
InFlight ==
  \/ \E s \in SweepIds : SweepInFlight(s)
  \/ \E r \in RenewIds : RenewInFlight(r)
  \/ \E l \in LoginIds : LoginInFlight(l)
  \/ \E n \in RefreshIds : RefreshInFlight(n)

\* The number of requests being served at once
Load ==
  Cardinality({s \in SweepIds : SweepInFlight(s)})
    + Cardinality({r \in RenewIds : RenewInFlight(r)})
    + Cardinality({l \in LoginIds : LoginInFlight(l)})

\* History of "two runs in succession": a run that started with no other
\* request in flight is the first; a run that starts right after it ended is
\* the second, and `same` records whether it left the table as it found it.
SuccStart(s) ==
  IF InFlight THEN SuccNone
  ELSE IF succ.phase = "done" THEN [succ EXCEPT !.phase = "second", !.same = TRUE]
  ELSE [phase |-> "first", snap |-> << >>, same |-> TRUE]
SuccEnd(table) ==
  IF succ.phase = "first" THEN [phase |-> "done", snap |-> table, same |-> TRUE]
  ELSE IF succ.phase = "second"
       THEN [phase |-> "done", snap |-> table, same |-> (table = succ.snap)]
       ELSE SuccNone

\* A run in which a statement failed is not a complete run of the sweep
SuccFailed(failed) == IF failed = {} THEN succ ELSE SuccNone

\* .lt('next_renewal_date', now).eq('status', 'active')
IsOverdue(row, now) == row.status = "active" /\ row.next_renewal_date < now

DecrementedNoFloor(q) == q - OutdatedPenalty

\* GREATEST(quality_score - 20, 0), evaluated by the database on the row
Decremented(q) == Max(q - OutdatedPenalty, 0)

OutdatedRow(row, now) ==
  [row EXCEPT !.status = "outdated",
              !.outdated_since = now,
              !.quality_score = Decremented(row.quality_score)]

\* An update that writes a row only while its renewal date is still past
UpdateInWhereOverdue(table, ids, patched) ==
  [a \in DOMAIN table |->
     IF a \in ids /\ table[a].next_renewal_date < clock THEN patched[a] ELSE table[a]]

\* .update(patch).in('id', ids): rows are chosen by id alone
UpdateIn(table, ids, patched) ==
  [a \in DOMAIN table |-> IF a \in ids THEN patched[a] ELSE table[a]]

\* The outcomes of one UPDATE statement over the rows `ids`: every row is
\* written, or the write of one row fails and with it the whole statement
UpdateOutcomes(ids) == {{}} \cup {{a} : a \in ids}

\* markOutdatedArticles: the select
markOutdatedArticles_select(s) ==
  /\ LET now == clock
         ids == {a \in ArticleIds : IsOverdue(articles[a], now)}
     IN sweep' = [sweep EXCEPT ![s] =
          [pc |-> IF ids = {} THEN "remove_select" ELSE "mark_update",
           now |-> now, ids |-> ids, queue |-> << >>]]
  /\ succ' = SuccStart(s)

\* The cleanup handler up to its first await: the 403, or step 1's select
handler(s, via, req) ==
  /\ sweep[s].pc = "idle"
  /\ Load < MaxInFlight
  /\ IF req.method # "POST" \/ ~validateCronRequest(req)
     THEN /\ out' = Answer(via, req, 403)
          /\ UNCHANGED <<sweep, succ>>
     ELSE /\ markOutdatedArticles_select(s)
          /\ out' = Answer(via, req, 0)
  /\ UNCHANGED <<clock, articles, renew, users, login, env, refresh, view>>

\* manualHandler: the 405, the 403, or the call of the main handler
manualHandler(s, req) ==
  IF req.method # "POST"
  THEN /\ sweep[s].pc = "idle"
       /\ out' = Answer("manual", req, 405)
       /\ UNCHANGED <<clock, articles, sweep, renew, succ, users, login, env, refresh, view>>
  ELSE IF req.admin # env.ADMIN_TOKEN
  THEN /\ sweep[s].pc = "idle"
       /\ out' = Answer("manual", req, 403)
       /\ UNCHANGED <<clock, articles, sweep, renew, succ, users, login, env, refresh, view>>
  ELSE handler(s, "manual", req)

\* markOutdatedArticles: the update.  Building the patch calls supabase.sql:
\* on a client without it the call throws, and the handler's catch answers
\* 500 'Cleanup process failed'.  An update that returns an error has written
\* no row, and the function returns 0.
markOutdatedArticles_update(s) ==
  /\ sweep[s].pc = "mark_update"
  /\ IF ~env.clientHasSql
     THEN /\ sweep' = [sweep EXCEPT ![s] = IdleSweep]
          /\ out' = [NoOut EXCEPT !.res = 500]
          /\ succ' = SuccNone
          /\ UNCHANGED articles
     ELSE \E failed \in UpdateOutcomes(sweep[s].ids) :
            /\ LET patched == [a \in DOMAIN articles |->
                                OutdatedRow(articles[a], sweep[s].now)]
               IN articles' = IF failed = {}
                              THEN UpdateIn(articles, sweep[s].ids, patched)
                              ELSE articles
            /\ sweep' = [sweep EXCEPT ![s].pc = "remove_select", ![s].ids = {}]
            /\ out' = [NoOut EXCEPT !.failed = failed]
            /\ succ' = SuccFailed(failed)
  /\ UNCHANGED <<clock, renew, users, login, env, refresh, view>>

\* .lt('next_renewal_date', twentyDaysAgo).eq('status', 'outdated')
IsOld(row, now) ==
  row.status = "outdated" /\ row.next_renewal_date < now - RemovalDays

RemovedRow(row, now) ==
  [row EXCEPT !.status = "removed",
              !.removal_date = now,
              !.removal_reason = "automatic_cleanup_20_days"]

\* removeOldArticles: the select
removeOldArticles_select(s) ==
  /\ sweep[s].pc = "remove_select"
  /\ LET ids == {a \in ArticleIds : IsOld(articles[a], clock)}
     IN sweep' = [sweep EXCEPT ![s].pc =
                     IF ids = {} THEN "rec_select" ELSE "remove_update",
                   ![s].ids = ids]
  /\ out' = NoOut
  /\ UNCHANGED <<clock, articles, renew, succ, users, login, env, refresh, view>>

\* removeOldArticles: the update
removeOldArticles_update(s) ==
  /\ sweep[s].pc = "remove_update"
  /\ \E failed \in UpdateOutcomes(sweep[s].ids) :
       /\ LET patched == [a \in DOMAIN articles |-> RemovedRow(articles[a], clock)]
          IN articles' = IF failed = {}
                         THEN UpdateIn(articles, sweep[s].ids, patched)
                         ELSE articles
       /\ out' = [NoOut EXCEPT !.failed = failed]
       /\ succ' = SuccFailed(failed)
  /\ sweep' = [sweep EXCEPT ![s].pc = "rec_select", ![s].ids = {}]
  /\ UNCHANGED <<clock, renew, users, login, env, refresh, view>>

\* generateRecommendations: the phrases for one article
AgePhrase(age) ==
  IF age > OldAge THEN "Complete rewrite needed - major updates to character history"
  ELSE IF age > MidAge THEN "Update with latest comic series and appearances"
  ELSE "Add recent developments and fan theories"

CategoryPhrases(category) ==
  IF category = "movie" THEN <<"Include latest film adaptations and casting news">>
  ELSE IF category = "comic" THEN <<"Add recent story arcs and crossover events">>
  ELSE << >>

TagPhrases(ntags) ==
  IF ntags < FewTags THEN <<"Expand tags for better searchability">> ELSE << >>

\* The list cut after two phrases
RecommendationsCutAtTwo(age, category, ntags) ==
  LET recs == <<AgePhrase(age)>> \o CategoryPhrases(category) \o TagPhrases(ntags)
  IN SubSeq(recs, 1, Min(Len(recs), 2))

\* recs.slice(0, 3)
Recommendations(age, category, ntags) ==
  LET recs == <<AgePhrase(age)>> \o CategoryPhrases(category) \o TagPhrases(ntags)
  IN SubSeq(recs, 1, Min(Len(recs), MaxRecs))

\* floor((new Date() - new Date(created_at)) / day)
ArticleAge(row, now) == now - row.created_at

\* .eq('status', 'outdated').is('renewal_recommendations', null)
NeedsRecommendations(row) ==
  row.status = "outdated" /\ row.renewal_recommendations = << >>

RECURSIVE SubsetsOfSize(_, _)
SubsetsOfSize(S, k) ==
  IF k = 0 THEN {{}}
  ELSE IF S = {} THEN {}
  ELSE LET x == CHOOSE y \in S : TRUE
       IN {T \cup {x} : T \in SubsetsOfSize(S \ {x}, k - 1)}
            \cup SubsetsOfSize(S \ {x}, k)

\* .limit(50) with no ordering: any 50 of the matching rows
Limit(S, n) ==
  IF Cardinality(S) <= n THEN {S}
  ELSE {S \ D : D \in SubsetsOfSize(S, Cardinality(S) - n)}

RECURSIVE InIdOrder(_)
InIdOrder(S) ==
  IF S = {} THEN << >>
  ELSE LET a == CHOOSE x \in S : \A y \in S : x <= y
       IN <<a>> \o InIdOrder(S \ {a})

\* generateRecommendations: the select and the loop that builds the list
generateRecommendations_select(s) ==
  /\ sweep[s].pc = "rec_select"
  /\ \E chosen \in Limit({a \in ArticleIds : NeedsRecommendations(articles[a])}, RecLimit) :
       LET order == InIdOrder(chosen)
           queue == [i \in 1..Len(order) |->
                      [articleId |-> order[i],
                       recommendations |->
                         Recommendations(ArticleAge(articles[order[i]], clock),
                                         articles[order[i]].category,
                                         articles[order[i]].ntags),
                       generated_at |-> clock]]
       IN sweep' = [sweep EXCEPT ![s].pc =
                       IF chosen = {} THEN "notify" ELSE "rec_update",
                     ![s].queue = queue]
  /\ out' = NoOut
  /\ UNCHANGED <<clock, articles, renew, succ, users, login, env, refresh, view>>

RecommendedRow(row, rec) ==
  [row EXCEPT !.renewal_recommendations = rec.recommendations,
              !.recommendations_generated_at = rec.generated_at]

\* generateRecommendations: one update of the second loop
generateRecommendations_update(s) ==
  /\ sweep[s].pc = "rec_update"
  /\ LET rec == Head(sweep[s].queue)
         patched == [a \in DOMAIN articles |-> RecommendedRow(articles[a], rec)]
     IN articles' = UpdateIn(articles, {rec.articleId}, patched)
  /\ sweep' = [sweep EXCEPT ![s].queue = Tail(sweep[s].queue),
                            ![s].pc = IF Len(sweep[s].queue) = 1
                                      THEN "notify" ELSE "rec_update"]
  /\ out' = NoOut
  /\ UNCHANGED <<clock, renew, succ, users, login, env, refresh, view>>

\* .lt('next_renewal_date', sevenDaysFromNow).eq('status', 'active')
\* .lt('renewal_notification_sent', now): a NULL column matches no comparison
NeedsNotification(row, now) ==
  /\ row.next_renewal_date < now + NotifyDays
  /\ row.status = "active"
  /\ row.renewal_notification_sent # NULL
  /\ row.renewal_notification_sent < now

NotifiedRow(row, now) == [row EXCEPT !.renewal_notification_sent = now]

\* notifyUsersOfOutdatedArticles, run when SMTP_HOST is set
notifyUsersOfOutdatedArticles(table, now) ==
  LET ids == {a \in DOMAIN table : NeedsNotification(table[a], now)}
      patched == [a \in DOMAIN table |-> NotifiedRow(table[a], now)]
  IN UpdateIn(table, ids, patched)

\* Step 4 of the cleanup handler, run when SMTP_HOST is set, and the 200
\* with the counts.  The select and the update of the notification follow
\* each other within the step.
cleanup_finish(s) ==
  /\ sweep[s].pc = "notify"
  /\ articles' = IF env.SMTP_HOST
                 THEN notifyUsersOfOutdatedArticles(articles, clock)
                 ELSE articles
  /\ sweep' = [sweep EXCEPT ![s] = IdleSweep]
  /\ succ' = SuccEnd(articles')
  /\ out' = [NoOut EXCEPT !.res = 200]
  /\ UNCHANGED <<clock, renew, users, login, env, refresh, view>>

---------------------------------------------------------------------------
\* api/renew.js

Renewable(row) == row.status \in {"active", "outdated"}

\* Math.min(article.quality_score + 10, 100), on the row as it was read
Renewed(q) == Min(q + RenewalBonus, MaxQuality)

RenewedRow(row, q, now) ==
  [row EXCEPT !.status = "active",
              !.last_renewed = now,
              !.next_renewal_date = now + RenewalDays,
              !.removal_date = (now + RenewalDays) + RemovalDays,
              !.quality_score = Renewed(q)]

\* .eq('user_id', user.id)
OwnedByAnyone(row, user) == TRUE
OwnedBy(row, user) == row.user_id = user

\* res.status(res) of renew.js to the request of `user` for `articleId`
\* (0 with renewAll)
RenewAnswer(user, articleId, res) ==
  [NoOut EXCEPT !.via = "renew", !.user = user, !.articleId = articleId, !.res = res]

\* Renew one article: the select, and the 404 and 400 answers
renew_select(r, user, articleId) ==
  /\ renew[r].pc = "idle"
  /\ Load < MaxInFlight
  /\ LET found == articleId \in ArticleIds /\ OwnedBy(articles[articleId], user)
     IN IF ~found
        THEN renew' = renew /\ out' = RenewAnswer(user, articleId, 404)
        ELSE IF articles[articleId].status = "removed"
        THEN renew' = renew /\ out' = RenewAnswer(user, articleId, 400)
        ELSE /\ renew' = [renew EXCEPT ![r] =
                  [pc |-> "update", user |-> user, now |-> clock,
                   pending |-> {[id |-> articleId,
                                 quality_score |-> articles[articleId].quality_score]}]]
             /\ out' = NoOut
  /\ succ' = SuccNone
  /\ UNCHANGED <<clock, articles, sweep, users, login, env, refresh, view>>

\* Renew one article: .update(updateData).eq('id', articleId), and the answer
renew_update(r) ==
  /\ renew[r].pc = "update"
  /\ \E p \in renew[r].pending :
       /\ LET patched == [a \in DOMAIN articles |-> RenewedRow(articles[a], p.quality_score, renew[r].now)]
          IN articles' = UpdateIn(articles, {p.id}, patched)
       /\ out' = RenewAnswer(renew[r].user, p.id, 200)
  /\ renew' = [renew EXCEPT ![r] = IdleRenew]
  /\ succ' = SuccNone
  /\ UNCHANGED <<clock, sweep, users, login, env, refresh, view>>

\* renewAll: the select of the user's active and outdated articles; with
\* none of them the answer follows at once
renewAll_select(r, user) ==
  /\ renew[r].pc = "idle"
  /\ Load < MaxInFlight
  /\ LET ids == {a \in ArticleIds :
                   OwnedBy(articles[a], user) /\ Renewable(articles[a])}
     IN IF ids = {}
        THEN renew' = renew /\ out' = RenewAnswer(user, 0, 200)
        ELSE /\ renew' = [renew EXCEPT ![r] =
                  [pc |-> "update_all", user |-> user, now |-> clock,
                   pending |-> {[id |-> a, quality_score |-> articles[a].quality_score]
                                  : a \in ids}]]
             /\ out' = NoOut
  /\ succ' = SuccNone
  /\ UNCHANGED <<clock, articles, sweep, users, login, env, refresh, view>>

\* renewAll: one of the updates that Promise.all awaits, in any order, and
\* the answer after the last
renewAll_update(r) ==
  /\ renew[r].pc = "update_all"
  /\ \E p \in renew[r].pending :
       /\ LET patched == [a \in DOMAIN articles |-> RenewedRow(articles[a], p.quality_score, renew[r].now)]
          IN articles' = UpdateIn(articles, {p.id}, patched)
       /\ IF renew[r].pending = {p}
          THEN renew' = [renew EXCEPT ![r] = IdleRenew]
               /\ out' = RenewAnswer(renew[r].user, 0, 200)
          ELSE renew' = [renew EXCEPT ![r].pending = renew[r].pending \ {p}]
               /\ out' = NoOut
  /\ succ' = SuccNone
  /\ UNCHANGED <<clock, sweep, users, login, env, refresh, view>>

---------------------------------------------------------------------------
\* api/login.js

\* A security_codes entry after its use (updatedCodes[codeIndex] = null), and
\* a request body with no securityCode (undefined)
NullCode == 0
MissingCode == -1

NoUser == [exists |-> FALSE, security_codes |-> << >>,
           last_code_refresh |-> NULL, next_refresh_allowed |-> NULL]
IdleLogin == [pc |-> "idle", email |-> 0, securityCode |-> MissingCode,
              updatedCodes |-> << >>, res |-> 0, token |-> << >>, user_id |-> 0]
IdleRefresh == [pc |-> "idle", email |-> 0, now |-> 0, res |-> 0]

\* process.env.JWT_SECRET
JwtSecret == "jwt-secret"

\* crypto.createHmac('sha256', key).update(message).digest('hex'): the same
\* digest for the same key and message, and for no other
Hmac(key, message) == <<key, message>>

\* generateToken: the digest of JSON.stringify({ userId, exp }), an object
\* being written as its keys with their values in order; exp is 30 days on
generateToken(userId, now) ==
  Hmac(JwtSecret, << <<"userId", userId>>, <<"exp", now + TokenDays>> >>)

\* verifyUserToken (upload.js, renew.js, view.js): the payload { userId }
expectedToken(userId) == Hmac(JwtSecret, << <<"userId", userId>> >>)

\* verifyUserToken: the user, when the row exists and the token is the
\* expected one, else null
verifyUserToken(token, userId) ==
  userId \in Users /\ users[userId].exists /\ token = expectedToken(userId)

\* generateSecurityCodes: 20 random codes, taken as 20 different values
generateSecurityCodes(issue) == [i \in 1..NumCodes |-> issue * NumCodes + i]

\* handleRegister
handleRegister(email) ==
  /\ ~users[email].exists
  /\ users' = [users EXCEPT ![email] =
       [exists |-> TRUE, security_codes |-> generateSecurityCodes(0),
        last_code_refresh |-> clock, next_refresh_allowed |-> clock]]
  /\ out' = NoOut
  /\ UNCHANGED <<clock, articles, sweep, renew, succ, login, env, refresh, view>>

\* Array.prototype.indexOf, strict equality; 0 stands for -1
IndexOf(codes, x) ==
  IF \E i \in DOMAIN codes : codes[i] = x
  THEN CHOOSE i \in DOMAIN codes : codes[i] = x /\ \A j \in 1..(i - 1) : codes[j] # x
  ELSE 0

\* updatedCodes[codeIndex] = null
MarkUsed(codes, codeIndex) == [codes EXCEPT ![codeIndex] = NullCode]

\* handleLogin: the select of the user and the check of the code
handleLogin_select(l, email, securityCode) ==
  /\ login[l].pc = "idle"
  /\ LET user == users[email]
         codeIndex == IndexOf(user.security_codes, securityCode)
     IN login' = [login EXCEPT ![l] =
          IF ~user.exists \/ codeIndex = 0
          THEN [pc |-> "done", email |-> email, securityCode |-> securityCode,
                updatedCodes |-> << >>, res |-> 401, token |-> << >>, user_id |-> 0]
          ELSE [pc |-> "update", email |-> email, securityCode |-> securityCode,
                updatedCodes |-> MarkUsed(user.security_codes, codeIndex),
                res |-> 0, token |-> << >>, user_id |-> 0]]
  /\ out' = NoOut
  /\ UNCHANGED <<clock, articles, sweep, renew, succ, users, env, refresh, view>>

\* handleLogin: the update of the user's codes, the cookies and the 200
handleLogin_update(l) ==
  /\ login[l].pc = "update"
  /\ users' = [users EXCEPT ![login[l].email].security_codes = login[l].updatedCodes]
  /\ login' = [login EXCEPT ![l].pc = "done", ![l].res = 200,
                            ![l].token = generateToken(login[l].email, clock),
                            ![l].user_id = login[l].email]
  /\ out' = NoOut
  /\ UNCHANGED <<clock, articles, sweep, renew, succ, env, refresh, view>>

\* A later request to upload.js, renew.js or view.js that carries the cookies
\* a login has set: verifyUserToken, and the 401 'Invalid authentication'
\* when it returns null
authenticate(l) ==
  /\ login[l].pc = "done"
  /\ login[l].res = 200
  /\ out' = [NoOut EXCEPT !.via = "verifyUserToken",
                          !.res = IF verifyUserToken(login[l].token, login[l].user_id)
                                  THEN 200 ELSE 401]
  /\ UNCHANGED <<clock, articles, sweep, renew, succ, users, login, env, refresh, view>>

\* handleRequestNewCodes: the select of the user, the 404 and the 429
handleRequestNewCodes_select(n, email) ==
  /\ refresh[n].pc = "idle"
  /\ LET user == users[email]
     IN refresh' = [refresh EXCEPT ![n] =
          IF ~user.exists
          THEN [pc |-> "done", email |-> email, now |-> clock, res |-> 404]
          ELSE IF clock < user.next_refresh_allowed
          THEN [pc |-> "done", email |-> email, now |-> clock, res |-> 429]
          ELSE [pc |-> "update", email |-> email, now |-> clock, res |-> 0]]
  /\ out' = NoOut
  /\ UNCHANGED <<clock, articles, sweep, renew, succ, users, login, env, view>>

\* handleRequestNewCodes: the update with the new codes, the email and the 200
handleRequestNewCodes_update(n) ==
  /\ refresh[n].pc = "update"
  /\ users' = [users EXCEPT ![refresh[n].email] =
       [exists |-> TRUE, security_codes |-> generateSecurityCodes(n),
        last_code_refresh |-> refresh[n].now,
        next_refresh_allowed |-> refresh[n].now + RefreshDays]]
  /\ refresh' = [refresh EXCEPT ![n].pc = "done", ![n].res = 200]
  /\ out' = NoOut
  /\ UNCHANGED <<clock, articles, sweep, renew, succ, login, env, view>>

---------------------------------------------------------------------------
\* The passing of time, between requests
Tick(step, maxClock) ==
  /\ ~InFlight
  /\ clock + step <= maxClock
  /\ clock' = clock + step
  /\ succ' = SuccNone
  /\ out' = NoOut
  /\ UNCHANGED <<articles, sweep, renew, users, login, env, refresh, view>>

UploadCategories == {"movie"}
UploadTagCounts == {12}
WrongCode == 99
SubmittedCodes == {1, 2, NullCode, MissingCode, WrongCode}

---------------------------------------------------------------------------
\* api/view.js, for one article and one authenticated user of it

ViewIds == 1..NumViewRequests

IdleView == [pc |-> "idle", existing |-> 0]
DoneView == [pc |-> "done", existing |-> 0]

\* Tables article_likes, article_bookmarks and article_views (the rows of the
\* pair, by id; a view row with the day of viewed_at), the article's likes
\* and views columns, and the requests
NoViews ==
  [likes |-> {}, likeCount |-> 0, bookmarks |-> {}, viewed |-> {}, viewCount |-> 0,
   nextId |-> 1, req |-> [t \in ViewIds |-> IdleView]]

\* .maybeSingle(): the row when exactly one matches, else no data (no row
\* matches, or several do and the call returns an error); 0 stands for null
maybeSingle(rows) == IF Cardinality(rows) = 1 THEN CHOOSE r \in rows : TRUE ELSE 0

\* supabase.rpc('increment_likes'), ('decrement_likes'), ('increment_views'):
\* the database adds or takes 1 in one statement
increment(n) == n + 1
decrement(n) == n - 1

\* toggleLike: the select of the user's like of the article
toggleLike_select(t) ==
  /\ view.req[t].pc = "idle"
  /\ 1 \in ArticleIds
  /\ LET existingLike == maybeSingle(view.likes)
     IN view' = [view EXCEPT !.req[t] =
          [pc |-> IF existingLike # 0 THEN "like_delete" ELSE "like_insert",
           existing |-> existingLike]]
  /\ out' = NoOut
  /\ UNCHANGED <<clock, articles, sweep, renew, succ, users, login, env, refresh>>

\* toggleLike: .delete().eq('id', existingLike.id)
toggleLike_delete(t) ==
  /\ view.req[t].pc = "like_delete"
  /\ view' = [view EXCEPT !.likes = view.likes \ {view.req[t].existing},
                          !.req[t].pc = "like_decrement"]
  /\ out' = NoOut
  /\ UNCHANGED <<clock, articles, sweep, renew, succ, users, login, env, refresh>>

\* toggleLike: rpc('decrement_likes') and the answer
toggleLike_decrement(t) ==
  /\ view.req[t].pc = "like_decrement"
  /\ view' = [view EXCEPT !.likeCount = decrement(view.likeCount),
                          !.req[t] = DoneView]
  /\ out' = NoOut
  /\ UNCHANGED <<clock, articles, sweep, renew, succ, users, login, env, refresh>>

\* toggleLike: the insert of a like row
toggleLike_insert(t) ==
  /\ view.req[t].pc = "like_insert"
  /\ view' = [view EXCEPT !.likes = view.likes \cup {view.nextId},
                          !.nextId = view.nextId + 1,
                          !.req[t].pc = "like_increment"]
  /\ out' = NoOut
  /\ UNCHANGED <<clock, articles, sweep, renew, succ, users, login, env, refresh>>

\* toggleLike: rpc('increment_likes') and the answer
toggleLike_increment(t) ==
  /\ view.req[t].pc = "like_increment"
  /\ view' = [view EXCEPT !.likeCount = increment(view.likeCount),
                          !.req[t] = DoneView]
  /\ out' = NoOut
  /\ UNCHANGED <<clock, articles, sweep, renew, succ, users, login, env, refresh>>

\* toggleBookmark: the select of the user's bookmark of the article
toggleBookmark_select(t) ==
  /\ view.req[t].pc = "idle"
  /\ 1 \in ArticleIds
  /\ LET existingBookmark == maybeSingle(view.bookmarks)
     IN view' = [view EXCEPT !.req[t] =
          [pc |-> IF existingBookmark # 0 THEN "bookmark_delete" ELSE "bookmark_insert",
           existing |-> existingBookmark]]
  /\ out' = NoOut
  /\ UNCHANGED <<clock, articles, sweep, renew, succ, users, login, env, refresh>>

\* toggleBookmark: .delete().eq('id', existingBookmark.id) and the answer
toggleBookmark_delete(t) ==
  /\ view.req[t].pc = "bookmark_delete"
  /\ view' = [view EXCEPT !.bookmarks = view.bookmarks \ {view.req[t].existing},
                          !.req[t] = DoneView]
  /\ out' = NoOut
  /\ UNCHANGED <<clock, articles, sweep, renew, succ, users, login, env, refresh>>

\* toggleBookmark: the insert of a bookmark row and the answer
toggleBookmark_insert(t) ==
  /\ view.req[t].pc = "bookmark_insert"
  /\ view' = [view EXCEPT !.bookmarks = view.bookmarks \cup {view.nextId},
                          !.nextId = view.nextId + 1,
                          !.req[t] = DoneView]
  /\ out' = NoOut
  /\ UNCHANGED <<clock, articles, sweep, renew, succ, users, login, env, refresh>>

\* The view rows of the pair whose viewed_at lies in the day `today`
ViewedOn(today) == {v \in view.viewed : v.day = today}

\* incrementViewCount: the select of the user's view of the article today
incrementViewCount_select(t) ==
  /\ view.req[t].pc = "idle"
  /\ 1 \in ArticleIds
  /\ LET today == clock
         existingView == maybeSingle({v.id : v \in ViewedOn(today)})
     IN view' = [view EXCEPT !.req[t] =
          IF existingView # 0 THEN DoneView
          ELSE [pc |-> "view_insert", existing |-> 0]]
  /\ out' = NoOut
  /\ UNCHANGED <<clock, articles, sweep, renew, succ, users, login, env, refresh>>

\* incrementViewCount: the insert of the view record, viewed_at now; with
\* insertError the counter is left alone
incrementViewCount_insert(t) ==
  /\ view.req[t].pc = "view_insert"
  /\ \E insertError \in BOOLEAN :
       view' = IF insertError THEN [view EXCEPT !.req[t] = DoneView]
               ELSE [view EXCEPT !.viewed = view.viewed \cup {[id |-> view.nextId, day |-> clock]},
                                 !.nextId = view.nextId + 1,
                                 !.req[t].pc = "view_increment"]
  /\ out' = NoOut
  /\ UNCHANGED <<clock, articles, sweep, renew, succ, users, login, env, refresh>>

\* incrementViewCount: rpc('increment_views'); with rpcError the fallback
\* follows
incrementViewCount_increment(t) ==
  /\ view.req[t].pc = "view_increment"
  /\ \E rpcError \in BOOLEAN :
       view' = IF rpcError THEN [view EXCEPT !.req[t].pc = "view_fallback_select"]
               ELSE [view EXCEPT !.viewCount = increment(view.viewCount),
                                 !.req[t] = DoneView]
  /\ out' = NoOut
  /\ UNCHANGED <<clock, articles, sweep, renew, succ, users, login, env, refresh>>

\* incrementViewCount, fallback: the select of the article's views
incrementViewCount_fallback_select(t) ==
  /\ view.req[t].pc = "view_fallback_select"
  /\ view' = [view EXCEPT !.req[t] = [pc |-> "view_fallback_update",
                                      existing |-> view.viewCount]]
  /\ out' = NoOut
  /\ UNCHANGED <<clock, articles, sweep, renew, succ, users, login, env, refresh>>

\* incrementViewCount, fallback: .update({ views: (article.views || 0) + 1 })
incrementViewCount_fallback_update(t) ==
  /\ view.req[t].pc = "view_fallback_update"
  /\ view' = [view EXCEPT !.viewCount = view.req[t].existing + 1,
                          !.req[t] = DoneView]
  /\ out' = NoOut
  /\ UNCHANGED <<clock, articles, sweep, renew, succ, users, login, env, refresh>>


Idle ==
  /\ sweep = [s \in SweepIds |-> IdleSweep]
  /\ renew = [r \in RenewIds |-> IdleRenew]
  /\ succ = SuccNone
  /\ users = [e \in Users |-> NoUser]
  /\ login = [l \in LoginIds |-> IdleLogin]
  /\ out = NoOut
  /\ refresh = [n \in RefreshIds |-> IdleRefresh]
  /\ view = NoViews

Init ==
  /\ clock = 0
  /\ articles = << >>
  /\ env = Configured
  /\ Idle

\* The cleanup handler after its first await, step by step
sweepSteps(s) ==
  \/ markOutdatedArticles_update(s)
  \/ removeOldArticles_select(s)
  \/ removeOldArticles_update(s)
  \/ generateRecommendations_select(s)
  \/ generateRecommendations_update(s)
  \/ cleanup_finish(s)

\* The cleanup handler as the scheduler calls it
cleanup(s) ==
  \/ handler(s, "cron", CronRequest)
  \/ sweepSteps(s)

\* The renew handler, step by step
renewHandler(r) ==
  \/ \E u \in Users, a \in 1..MaxArticles : renew_select(r, u, a)
  \/ renew_update(r)
  \/ \E u \in Users : renewAll_select(r, u)
  \/ renewAll_update(r)

Lifecycle(step, maxClock, maxArticles) ==
  \/ Tick(step, maxClock)
  \/ \E u \in Users, c \in UploadCategories, n \in UploadTagCounts :
       Len(articles) < maxArticles /\ upload(u, c, n, NULL)
  \/ \E s \in SweepIds : cleanup(s)
  \/ \E r \in RenewIds : renewHandler(r)

Next == Lifecycle(TickStep, MaxClock, MaxArticles)

Spec == Init /\ [][Next]_vars

\* The same machine on a coarser clock, run long enough for a score to reach 0
NextLong == Lifecycle(LongTickStep, LongMaxClock, LongMaxArticles)

SpecLong == Init /\ [][NextLong]_vars

\* Registration and login
NextLogin ==
  \/ \E e \in Users : handleRegister(e)
  \/ \E l \in LoginIds, e \in Users, c \in SubmittedCodes : handleLogin_select(l, e, c)
  \/ \E l \in LoginIds : handleLogin_update(l)

SpecLogin == Init /\ [][NextLogin]_vars

\* Registration, login and the request for new codes as the days pass
CodesSubmitted == {1, NumCodes + 1}

NextCodes ==
  \/ Tick(CodeTickStep, CodeMaxClock)
  \/ \E e \in Users : handleRegister(e)
  \/ \E l \in LoginIds, e \in Users, c \in CodesSubmitted : handleLogin_select(l, e, c)
  \/ \E l \in LoginIds : handleLogin_update(l)
  \/ \E l \in LoginIds : authenticate(l)
  \/ \E n \in RefreshIds, e \in Users : handleRequestNewCodes_select(n, e)
  \/ \E n \in RefreshIds : handleRequestNewCodes_update(n)

SpecCodes == Init /\ [][NextCodes]_vars

\* One article, and the like, bookmark and view requests of one user of it,
\* today and tomorrow
NextView ==
  \/ Tick(ViewTickStep, ViewMaxClock)
  \/ Len(articles) < LongMaxArticles /\ upload(1, "movie", 12, NULL)
  \/ \E t \in ViewIds :
       \/ toggleLike_select(t)
       \/ toggleLike_delete(t)
       \/ toggleLike_decrement(t)
       \/ toggleLike_insert(t)
       \/ toggleLike_increment(t)
       \/ toggleBookmark_select(t)
       \/ toggleBookmark_delete(t)
       \/ toggleBookmark_insert(t)
       \/ incrementViewCount_select(t)
       \/ incrementViewCount_insert(t)
       \/ incrementViewCount_increment(t)
       \/ incrementViewCount_fallback_select(t)
       \/ incrementViewCount_fallback_update(t)

SpecView == Init /\ [][NextView]_vars

\* The articles of two authenticated users, the renewals either of them
\* requests for any article id, and one cleanup run
NextOwners ==
  \/ Tick(OwnerTickStep, MaxClock)
  \/ \E u \in Owners : Len(articles) < OwnerArticles /\ upload(u, "movie", 12, NULL)
  \/ cleanup(1)
  \/ \E r \in RenewIds :
       \/ \E u \in Owners, a \in 1..OwnerArticles : renew_select(r, u, a)
       \/ renew_update(r)
       \/ \E u \in Owners : renewAll_select(r, u)
       \/ renewAll_update(r)

SpecOwners == Init /\ [][NextOwners]_vars

\* A table of more articles than one recommendation batch holds, all uploaded
\* on day 0, and the cleanup handler run again and again as the days pass
InitBatch ==
  /\ clock = 0
  /\ articles = [a \in 1..BatchArticles |-> NewArticle(1, "movie", 12, 0, NULL)]
  /\ env = Configured
  /\ Idle

NextBatch ==
  \/ Tick(TickStep, MaxClock)
  \/ cleanup(1)

SpecBatch == InitBatch /\ [][NextBatch]_vars

\* The two cleanup endpoints under every request and in every deployment
InitTrigger ==
  /\ clock = 0
  /\ articles = << >>
  /\ env \in Deployments
  /\ Idle

NextTrigger ==
  \/ Tick(LongTickStep, LongMaxClock)
  \/ Len(articles) < LongMaxArticles /\ upload(1, "movie", 12, NULL)
  \/ \E req \in Requests : handler(1, "cron", req)
  \/ \E req \in Requests : manualHandler(1, req)
  \/ sweepSteps(1)

SpecTrigger == InitTrigger /\ [][NextTrigger]_vars

\* One article on a clock fine enough for several sweeps to fall in the week
\* before its renewal date, under either column default of
\* renewal_notification_sent: NULL, or the time of the insert
InitNotify ==
  /\ clock = 0
  /\ \E notified \in {NULL, 0} :
       articles = <<NewArticle(1, "movie", 12, 0, notified)>>
  /\ env = Configured
  /\ Idle

NextNotify ==
  \/ Tick(NotifyTickStep, MaxClock)
  \/ cleanup(1)
  \/ renewHandler(1)

SpecNotify == InitNotify /\ [][NextNotify]_vars

\* One article of every category and tag count, kept alive by renewals until
\* it is more than 180 days old
RecCategories == {"movie", "comic", "general", ""}
RecTagCounts == {0, 4, 5, 12}

InitRecs ==
  /\ clock = 0
  /\ \E c \in RecCategories, n \in RecTagCounts :
       articles = <<NewArticle(1, c, n, 0, NULL)>>
  /\ env = Configured
  /\ Idle

NextRecs ==
  \/ Tick(LongTickStep, RecMaxClock)
  \/ cleanup(1)
  \/ renewHandler(1)

SpecRecs == InitRecs /\ [][NextRecs]_vars

---------------------------------------------------------------------------
\* Which rows a step writes, read off the request that moved

MarkWrites(a) ==
  \E s \in SweepIds :
    /\ sweep[s].pc = "mark_update" /\ sweep'[s].pc = "remove_select"
    /\ out'.failed = {} /\ a \in sweep[s].ids

RemoveWrites(a) ==
  \E s \in SweepIds :
    /\ sweep[s].pc = "remove_update" /\ sweep'[s].pc = "rec_select"
    /\ out'.failed = {} /\ a \in sweep[s].ids

RenewWrites(a) ==
  \E r \in RenewIds :
    /\ renew[r].pc \in {"update", "update_all"}
    /\ \E p \in renew[r].pending \ renew'[r].pending : p.id = a

\* The step in which a sweep's marking takes effect: its update, or its select
\* when that finds nothing to mark
MarkStep(s) ==
  \/ sweep[s].pc = "mark_update" /\ sweep'[s].pc = "remove_select" /\ out'.failed = {}
  \/ sweep[s].pc = "idle" /\ sweep'[s].pc = "remove_select"

RemoveStep(s) ==
  \/ sweep[s].pc = "remove_update" /\ sweep'[s].pc = "rec_select" /\ out'.failed = {}
  \/ sweep[s].pc = "remove_select" /\ sweep'[s].pc = "rec_select"

---------------------------------------------------------------------------
\* C1: in every reachable state every article's quality_score is an integer
\* from 0 to 100, whatever the interleaving of uploads, renewals and sweeps.
C1_QualityInRange ==
  \A a \in DOMAIN articles : articles[a].quality_score \in 0..MaxQuality

\* A sweep has marked an article whose score was below the penalty.
C1_Floored ==
  \E a \in DOMAIN articles :
    articles[a].status = "outdated" /\ articles[a].quality_score = 0

\* C2: an article whose status is 'removed' keeps that status in every step.
C2_RemovedIsTerminal ==
  [][\A a \in DOMAIN articles :
       articles[a].status = "removed" => articles'[a].status = "removed"]_vars

\* C3: every status write is active to outdated (a sweep's marking), outdated
\* to removed (a sweep's removal) or active/outdated to active (a renewal),
\* and a status changes in no other way.
C3_TransitionsAllowed ==
  [][\A a \in DOMAIN articles :
       /\ MarkWrites(a) => articles[a].status = "active"
       /\ RemoveWrites(a) => articles[a].status = "outdated"
       /\ RenewWrites(a) => articles[a].status \in {"active", "outdated"}
       /\ articles'[a].status # articles[a].status
            => MarkWrites(a) \/ RemoveWrites(a) \/ RenewWrites(a)]_vars

\* C4: the marking of a sweep run at time now turns into 'outdated' exactly
\* the articles that are active with next_renewal_date < now, gives them
\* outdated_since = now and a quality_score lowered by 20 but not below 0,
\* and leaves every other article as it is.
C4_MarksExactlyOverdue ==
  [][\A s \in SweepIds : MarkStep(s) =>
       \A a \in DOMAIN articles :
         IF articles[a].status = "active" /\ articles[a].next_renewal_date < clock
         THEN /\ articles'[a].status = "outdated"
              /\ articles'[a].outdated_since = clock
              /\ articles'[a].quality_score =
                   IF articles[a].quality_score >= 20
                   THEN articles[a].quality_score - 20 ELSE 0
         ELSE articles'[a] = articles[a]]_vars

\* C5: the removal of a sweep run at time now sets to 'removed' exactly the
\* articles that are not removed and have next_renewal_date < now - 20 days,
\* stamps removal_date = now and a removal reason on them, and removes no
\* article whose next_renewal_date is now - 20 days or later.
C5_RemovesExactlyOld ==
  [][\A s \in SweepIds : RemoveStep(s) =>
       \A a \in DOMAIN articles :
         IF articles[a].status # "removed" /\ articles[a].next_renewal_date < clock - 20
         THEN /\ articles'[a].status = "removed"
              /\ articles'[a].removal_date = clock
              /\ articles'[a].removal_reason # ""
         ELSE articles'[a] = articles[a]]_vars

\* C6: a second run of the sweep, started right after a first one ended and
\* with nothing in between, leaves the table as the first run left it.
C6_SecondRunChangesNothing == succ.same

\* C7: a step of a sweep never lowers the quality_score of an article that is
\* already outdated.
C7_NoSecondDecrement ==
  [][\A a \in DOMAIN articles :
       (articles[a].status = "outdated" /\ sweep' # sweep)
         => articles'[a].quality_score >= articles[a].quality_score]_vars

\* C8: for every user and every code issued to the user, at most one login
\* request is answered 200 for that code.
C8_CodeUsedOnce ==
  \A e \in Users : \A c \in 1..NumCodes :
    Cardinality({l \in LoginIds :
                   /\ login[l].pc = "done" /\ login[l].res = 200
                   /\ login[l].email = e /\ login[l].securityCode = c}) <= 1

\* C9: a login answered 200 submitted one of the codes issued to the user; a
\* request whose code is missing, null or not among the issued codes is
\* answered 401 without writing the code list.
C9_OnlyIssuedCodes ==
  \A l \in LoginIds :
    /\ (login[l].pc = "done" /\ login[l].res = 200)
         => login[l].securityCode \in 1..NumCodes
    /\ (login[l].pc # "idle" /\ login[l].securityCode \notin 1..NumCodes)
         => (login[l].pc = "done" /\ login[l].res = 401)

\* C10: a renewal's write at time now to an article that is active or
\* outdated leaves it active with last_renewed = now, next_renewal_date =
\* now + 30, removal_date = next_renewal_date + 20 and the quality_score it
\* had just before the write plus 10, at most 100.
C10_RenewalEffect ==
  [][\A a \in DOMAIN articles :
       (RenewWrites(a) /\ articles[a].status \in {"active", "outdated"}) =>
         /\ articles'[a].status = "active"
         /\ articles'[a].last_renewed = clock
         /\ articles'[a].next_renewal_date = clock + 30
         /\ articles'[a].removal_date = articles'[a].next_renewal_date + 20
         /\ articles'[a].quality_score =
              IF articles[a].quality_score + 10 > 100
              THEN 100 ELSE articles[a].quality_score + 10]_vars

\* C11: the renewal/sweep race is in the code.  When a sweep's marking or
\* removing update writes an article that a renewal has completed on since the
\* sweep read it (the article is active with next_renewal_date = now + 30),
\* the article ends outdated or removed while keeping the renewal's dates: a
\* row neither serial order gives, since both leave it active.
C11_SweepOverwritesRenewal ==
  [][\A a \in DOMAIN articles :
       ( /\ MarkWrites(a) \/ RemoveWrites(a)
         /\ articles[a].status = "active"
         /\ articles[a].next_renewal_date = clock + 30 )
       => /\ articles'[a].status \in {"outdated", "removed"}
          /\ articles'[a].next_renewal_date = clock + 30
          /\ articles'[a].last_renewed = clock]_vars

\* A renewed article that a sweep has set to outdated or removed afterwards.
C11_RenewedThenSwept ==
  \E a \in DOMAIN articles :
    /\ articles[a].status \in {"outdated", "removed"}
    /\ articles[a].next_renewal_date > clock
    /\ articles[a].last_renewed = clock

\* C12: when the write of one article fails in a sweep's marking or removing
\* update, every other article of that update is still marked outdated, or
\* removed.
C12_FailureLeavesOthersTransitioned ==
  [][\A s \in SweepIds :
       /\ (sweep[s].pc = "mark_update" /\ sweep'[s].pc = "remove_select")
            => \A a \in sweep[s].ids \ out'.failed :
                 articles'[a].status = "outdated"
       /\ (sweep[s].pc = "remove_update" /\ sweep'[s].pc = "rec_select")
            => \A a \in sweep[s].ids \ out'.failed :
                 articles'[a].status = "removed"]_vars

\* C13: every authorised invocation of the sweep ends after its last step
\* with the 200 that reports the counts; no invocation ends earlier, with the
\* 500 'Cleanup process failed', leaving its remaining steps undone.
C13_NoFatalAbort ==
  [][\A s \in SweepIds :
       (sweep[s].pc # "idle" /\ sweep'[s].pc = "idle")
         => (sweep[s].pc = "notify" /\ out'.res = 200)]_vars

\* C14: a request to the sweep endpoint that is not a POST carrying an
\* x-cron-secret header equal to the configured secret is answered 403 and
\* starts no sweep and changes no article, also when it carries no such header
\* and whether or not the secret is configured.
C14_CronSecretRequired ==
  [][out'.via = "cron" =>
       ( \/ /\ out'.method = "POST"
            /\ out'.cron # Undefined
            /\ out'.cron = env.CRON_SECRET
         \/ /\ out'.res = 403
            /\ articles' = articles
            /\ sweep' = sweep )]_vars

\* C15: a POST to the manual trigger with the valid admin token runs the
\* sweep, with or without the x-cron-secret header; a POST whose admin token
\* is wrong or missing is answered 403 and starts no sweep and changes no
\* article.
C15_AdminTokenSuffices ==
  [][(out'.via = "manual" /\ out'.method = "POST") =>
       IF out'.admin # Undefined /\ out'.admin = env.ADMIN_TOKEN
       THEN /\ out'.res = 0
            /\ \E s \in SweepIds : sweep[s].pc = "idle" /\ sweep'[s].pc # "idle"
       ELSE /\ out'.res = 403
            /\ articles' = articles
            /\ sweep' = sweep]_vars

\* C16: when a sweep reaches its notification step with email configured,
\* every active article whose next_renewal_date is less than 7 days after
\* now and that has not been notified since its creation or last renewal,
\* never notified articles included, gets renewal_notification_sent = now.
C16_NotifiesUpcoming ==
  [][\A s \in SweepIds :
       (sweep[s].pc = "notify" /\ sweep'[s].pc = "idle" /\ env.SMTP_HOST) =>
         \A a \in DOMAIN articles :
           ( /\ articles[a].status = "active"
             /\ articles[a].next_renewal_date < clock + 7
             /\ \/ articles[a].renewal_notification_sent = NULL
                \/ articles[a].renewal_notification_sent < articles[a].last_renewed )
           => articles'[a].renewal_notification_sent = clock]_vars

C18_RemovedNotRenewed ==
  [][/\ \A r \in RenewIds :
          (renew[r].pc = "idle" /\ renew'[r].pc = "update")
            => \A p \in renew'[r].pending : articles[p.id].status # "removed"
     /\ \A a \in DOMAIN articles :
          ( /\ articles[a].status = "removed"
            /\ \E r \in RenewIds :
                 /\ renew[r].pc = "update_all"
                 /\ \E p \in renew[r].pending \ renew'[r].pending : p.id = a )
          => articles'[a] = articles[a]]_vars

\* C19: the recommendations a sweep stores for an article are fixed by its age
\* in days, its category and its number of tags: the rewrite phrase if the
\* age is over 180, the update-series phrase if it is over 90 and at most
\* 180, else the add-developments phrase; then the phrase of the category if
\* that is movie or comic; then the tag phrase if it has fewer than 5 tags;
\* from 1 to 3 phrases in all.
C19_RecommendationTable ==
  [][\A s \in SweepIds :
       (sweep[s].pc = "rec_update" /\ sweep'[s] # sweep[s]) =>
         LET a == Head(sweep[s].queue).articleId
             age == clock - articles[a].created_at
             byAge == IF age > 180
                      THEN "Complete rewrite needed - major updates to character history"
                      ELSE IF age > 90 /\ age <= 180
                      THEN "Update with latest comic series and appearances"
                      ELSE "Add recent developments and fan theories"
             byCategory ==
               IF articles[a].category = "movie"
               THEN <<"Include latest film adaptations and casting news">>
               ELSE IF articles[a].category = "comic"
               THEN <<"Add recent story arcs and crossover events">>
               ELSE << >>
             byTags == IF articles[a].ntags < 5
                       THEN <<"Expand tags for better searchability">>
                       ELSE << >>
         IN /\ articles'[a].renewal_recommendations = <<byAge>> \o byCategory \o byTags
            /\ Len(articles'[a].renewal_recommendations) \in 1..3]_vars

\* An article over 180 days old, of a category with a phrase and with few
\* tags, has its three phrases stored.
C19_ThreePhrasesStored ==
  \E a \in DOMAIN articles :
    /\ Len(articles[a].renewal_recommendations) = 3
    /\ articles[a].renewal_recommendations[1]
         = "Complete rewrite needed - major updates to character history"
    /\ articles[a].renewal_recommendations[3] = "Expand tags for better searchability"

\* C20: an article is created active, with quality_score 100 and
\* next_renewal_date = creation time + 30 days, and after every step every
\* article that is not removed has removal_date = next_renewal_date + 20 days.
C20_CreationAndRemovalDate ==
  [][/\ Len(articles') > Len(articles) =>
          LET new == articles'[Len(articles')]
          IN /\ new.status = "active"
             /\ new.quality_score = 100
             /\ new.next_renewal_date = clock + 30
     /\ \A a \in DOMAIN articles' :
          articles'[a].status # "removed"
            => articles'[a].removal_date = articles'[a].next_renewal_date + 20]_vars

\* C21: a request for new codes that is answered while fewer than 7 days
\* have passed since codes were last issued to the user, at registration or by
\* a refresh, is answered 429 and leaves the user's codes as they are; so two
\* issues to one user are at least 7 days apart.
C21_RefreshAfterSevenDays ==
  [][\A n \in RefreshIds :
       ( /\ refresh[n].pc # "done" /\ refresh'[n].pc = "done"
         /\ users[refresh'[n].email].exists
         /\ clock < users[refresh'[n].email].last_code_refresh + 7 )
       => /\ refresh'[n].res = 429
          /\ users' = users]_vars

\* C22: a login is answered 200 only within 30 days of the issue of the
\* user's codes.
C22_CodesExpire ==
  [][\A l \in LoginIds :
       ( /\ login[l].pc # "done" /\ login'[l].pc = "done"
         /\ login'[l].res = 200 )
       => clock <= users[login'[l].email].last_code_refresh + 30]_vars

\* C23: the token and user_id cookies of a successful login pass
\* verifyUserToken on a later request of that user.
C23_LoginTokenVerifies ==
  out.via = "verifyUserToken" => out.res = 200

\* C24: in every state there is at most one like row and at most one bookmark
\* row of the user for the article, and when no like request is under way
\* the article's like counter is the number of like rows: it has gone up by 1
\* with each row added and down by 1 with each row deleted.
C24_OneLikeOneBookmark ==
  /\ Cardinality(view.likes) <= 1
  /\ Cardinality(view.bookmarks) <= 1
  /\ (\A t \in ViewIds : view.req[t].pc \in {"idle", "done"})
       => view.likeCount = Cardinality(view.likes)

\* C26: for every day there is at most one view record of the user for the
\* article, and the article's view counter has been raised at most once for
\* each day on which the user viewed it.
C26_OneViewPerDay ==
  /\ \A d \in 0..ViewMaxClock : Cardinality(ViewedOn(d)) <= 1
  /\ view.viewCount <= Cardinality({v.day : v \in view.viewed})

\* C25: a renewal requested by user u, of one article or of all, changes no
\* article of another user: every article a step of it changes, and every
\* article it has read for its update, has user_id u; and a request to renew
\* one article that belongs to another user is answered 404 with the
\* articles as they were.
C25_RenewsOwnArticlesOnly ==
  [][/\ \A r \in RenewIds :
          /\ (RenewInFlight(r) /\ renew'[r] # renew[r])
               => \A a \in ArticleIds :
                    articles'[a] # articles[a] => articles[a].user_id = renew[r].user
          /\ \A p \in renew'[r].pending : articles'[p.id].user_id = renew'[r].user
     /\ (/\ out'.via = "renew"
         /\ out'.articleId \in ArticleIds
         /\ articles[out'.articleId].user_id # out'.user)
          => out'.res = 404 /\ articles' = articles /\ renew' = renew]_vars

\* C25, witness: a request to renew another user's article has just been
\* answered 404 while an article of the requester stands renewed and the
\* other user's article has never been renewed.
C25_ForeignRenewalRejected ==
  /\ out.via = "renew"
  /\ out.res = 404
  /\ out.articleId \in ArticleIds
  /\ articles[out.articleId].user_id # out.user
  /\ articles[out.articleId].last_renewed = articles[out.articleId].created_at
  /\ \E a \in ArticleIds :
       /\ articles[a].user_id = out.user
       /\ articles[a].last_renewed > articles[a].created_at

====
